---- MODULE Spec2Model ----
(***************************************************************************)
(* Shape-level model of nets/PLPNet.py: YoloBody = SD_PFAN (attention-     *)
(* gated bidirectional fusion over the PAC_CSPDarknet backbone) followed   *)
(* by the decoupled YOLOXHead.                                             *)
(*                                                                         *)
(* A tensor is its shape (n, c, h, w) plus `stride`, the stride of its     *)
(* grid relative to the model input, and `via`, the name of the variable   *)
(* it was first bound to.  Prediction tensors carry `chans`, one label per *)
(* channel.                                                                *)
(* Floats are fixed point: a width multiplier is held in thousandths       *)
(* (0.375 is 375), a depth multiplier in hundredths (0.33 is 33).          *)
(***************************************************************************)
EXTENDS Integers, Sequences, FiniteSets, TLC

VARIABLES
    entry,          \* which class the caller constructed: "YoloBody" or "SD_PFAN"
    pc,             \* position: "start", "constructed", "L<line>", "returned", "raised"
    phi,            \* profile name given to YoloBody.__init__ ("" for entry SD_PFAN)
    backbone,       \* the SD_PFAN module (YoloBody.backbone), or NoModule
    head,           \* the YOLOXHead module (YoloBody.head), or NoModule
    out_features,   \* the backbone's output mapping, in iteration order
    loc,            \* SD_PFAN.forward's local tensors
    fpn_outs,       \* the tuple SD_PFAN.forward returned
    preds,          \* per head iteration: its reg_output, obj_output, cls_output
    outputs,        \* YOLOXHead.forward's list `outputs`
    ops,            \* fusion and head operators invoked during the current call
    input,          \* the current call's input: batch size and stride-8 grid size
    err,            \* "none" or the exception raised
    errAt           \* where it was raised

vars == <<entry, pc, phi, backbone, head, out_features, loc, fpn_outs, preds,
          outputs, ops, input, err, errAt>>

----------------------------------------------------------------------------
(* Bounds of the model.                                                    *)

MaxDim == 8

MaxBatch == 1

MaxClasses == 2

----------------------------------------------------------------------------
(* Values.                                                                 *)

NoModule == [kind |-> "None"]

NoTensor == [kind |-> "None"]

IsErr(r) == "error" \in DOMAIN r

Error(e) == [error |-> e]

\* int(x) of a product c * width, width in thousandths (truncation, x >= 0).
int(x) == x \div 1000

----------------------------------------------------------------------------
(* Operators of torch / mmcv / darknet, as shape transformers.             *)

ConvTranspose2d(cin, cout, k, s, p, opad) ==
    [kind |-> "ConvTranspose2d", cin |-> cin, cout |-> cout, k |-> k, s |-> s,
     p |-> p, opad |-> opad]

SAConv2d(cin, cout, k, s, p) ==
    [kind |-> "SAConv2d", cin |-> cin, cout |-> cout, k |-> k, s |-> s,
     p |-> p, opad |-> 0]

Conv2d(cin, cout, k, s, p) ==
    [kind |-> "Conv2d", cin |-> cin, cout |-> cout, k |-> k, s |-> s,
     p |-> p, opad |-> 0]

\* darknet.BaseConv / DWConv: conv + norm + activation, pad = (ksize - 1) // 2.
BaseConv(kind, cin, cout, ksize, stride) ==
    [kind |-> kind, cin |-> cin, cout |-> cout, k |-> ksize, s |-> stride,
     p |-> (ksize - 1) \div 2, opad |-> 0]

\* LRAM(in, out): the attention gate.
LRAM(cin, cout) == [kind |-> "LRAM", cin |-> cin, cout |-> cout]

OutSize(op, d) ==
    IF op.kind = "ConvTranspose2d"
    THEN (d - 1) * op.s - 2 * op.p + op.k + op.opad
    ELSE (d + 2 * op.p - op.k) \div op.s + 1

OutStride(op, st) ==
    IF op.kind = "ConvTranspose2d" THEN st \div op.s ELSE st * op.s

\* module(t): a convolution rejects an input whose channel count is not the
\* one it was declared with.
Apply(op, name, t) ==
    IF IsErr(t) THEN t
    ELSE IF t.c # op.cin THEN Error("RuntimeError:channels")
    ELSE [n |-> t.n, c |-> op.cout, h |-> OutSize(op, t.h), w |-> OutSize(op, t.w),
          stride |-> OutStride(op, t.stride), via |-> name]

\* The gate maps a tensor to one of identical shape.
Gate(op, name, t) == [t EXCEPT !.via = name]

\* torch.cat([a, b], 1): every dimension but the channels must agree.
Cat(a, b, name) ==
    IF IsErr(a) THEN a
    ELSE IF IsErr(b) THEN b
    ELSE IF a.n # b.n \/ a.h # b.h \/ a.w # b.w THEN Error("RuntimeError:sizes")
    ELSE [n |-> a.n, c |-> a.c + b.c, h |-> a.h, w |-> a.w,
          stride |-> a.stride, via |-> name]

----------------------------------------------------------------------------
(* SD_PFAN.__init__                                                        *)

in_features_default == <<"dark3", "dark4", "dark5">>

in_channels_default == <<256, 512, 1024>>

\* Mutant: the transposed convolution without its output_padding.
upsample_L_to_M_decl_NoOutputPadding(in_channels, width) ==
    ConvTranspose2d(int(in_channels[3] * width), int(in_channels[2] * width), 3, 2, 1, 0)

\* in_channels is the Python list, so in_channels[0] is written in_channels[1].
upsample_L_to_M_decl(in_channels, width) ==
    ConvTranspose2d(int(in_channels[3] * width), int(in_channels[2] * width), 3, 2, 1, 1)

\* Mutant: the output channel count taken from High / 2 instead of Mid // 2.
upsample_M_to_H_decl_HalfHigh(in_channels, width) ==
    ConvTranspose2d(int(2 * in_channels[2] * width),
                    int((in_channels[1] \div 2) * width), 3, 2, 1, 1)

upsample_M_to_H_decl(in_channels, width) ==
    ConvTranspose2d(int(2 * in_channels[2] * width),
                    int((in_channels[2] \div 2) * width), 3, 2, 1, 1)

downsample_M_to_L_decl(in_channels, width) ==
    SAConv2d(int(2 * in_channels[2] * width), int(in_channels[3] * width), 3, 2, 1)

downsample_H_to_M_decl(in_channels, width) ==
    SAConv2d(int(2 * in_channels[1] * width), int(2 * in_channels[2] * width), 3, 2, 1)

resize_H_decl(in_channels, width) ==
    BaseConv("BaseConv", int(2 * in_channels[1] * width), int(in_channels[1] * width), 1, 1)

\* Mutant: the projector declared for 2 x Mid input channels instead of 4 x Mid.
resize_M_decl_TwoMid(in_channels, width) ==
    BaseConv("BaseConv", int(2 * in_channels[2] * width), int(in_channels[2] * width), 1, 1)

resize_M_decl(in_channels, width) ==
    BaseConv("BaseConv", int(4 * in_channels[2] * width), int(in_channels[2] * width), 1, 1)

\* Mutant: the projector keeps the concatenation's channel count.
resize_L_decl_Unreduced(in_channels, width) ==
    BaseConv("BaseConv", int(2 * in_channels[3] * width), int(2 * in_channels[3] * width), 1, 1)

resize_L_decl(in_channels, width) ==
    BaseConv("BaseConv", int(2 * in_channels[3] * width), int(in_channels[3] * width), 1, 1)

SD_PFAN_init(depth, width, in_features, in_channels, depthwise) ==
    [kind              |-> "SD_PFAN",
     backbone          |-> [kind |-> "PAC_CSPDarknet", depth |-> depth,
                            width |-> width, depthwise |-> depthwise],
     in_features       |-> in_features,
     in_channels       |-> in_channels,
     width             |-> width,
     upsample_L_to_M   |-> upsample_L_to_M_decl(in_channels, width),
     upsample_M_to_H   |-> upsample_M_to_H_decl(in_channels, width),
     downsample_M_to_L |-> downsample_M_to_L_decl(in_channels, width),
     downsample_H_to_M |-> downsample_H_to_M_decl(in_channels, width),
     resize_H          |-> resize_H_decl(in_channels, width),
     resize_M          |-> resize_M_decl(in_channels, width),
     resize_L          |-> resize_L_decl(in_channels, width),
     feat1_attention   |-> LRAM(int(in_channels[1] * width), int(in_channels[1] * width)),
     feat2_attention   |-> LRAM(int(in_channels[2] * width), int(in_channels[2] * width)),
     feat3_attention   |-> LRAM(int(in_channels[3] * width), int(in_channels[3] * width))]

----------------------------------------------------------------------------
(* YOLOXHead.__init__                                                      *)

ConvKind(depthwise) == IF depthwise THEN "DWConv" ELSE "BaseConv"

stem_decl(in_channels, width, i) ==
    BaseConv("BaseConv", int(in_channels[i] * width), int(256 * width), 1, 1)

ConvPair(depthwise, width) ==
    <<BaseConv(ConvKind(depthwise), int(256 * width), int(256 * width), 3, 1),
      BaseConv(ConvKind(depthwise), int(256 * width), int(256 * width), 3, 1)>>

YOLOXHead_init(num_classes, width, in_channels, depthwise) ==
    [kind        |-> "YOLOXHead",
     num_classes |-> num_classes,
     width       |-> width,
     depthwise   |-> depthwise,
     stems       |-> [i \in 1..Len(in_channels) |-> stem_decl(in_channels, width, i)],
     cls_convs   |-> [i \in 1..Len(in_channels) |-> ConvPair(depthwise, width)],
     cls_preds   |-> [i \in 1..Len(in_channels) |->
                        Conv2d(int(256 * width), num_classes, 1, 1, 0)],
     reg_convs   |-> [i \in 1..Len(in_channels) |-> ConvPair(depthwise, width)],
     reg_preds   |-> [i \in 1..Len(in_channels) |-> Conv2d(int(256 * width), 4, 1, 1, 0)],
     obj_preds   |-> [i \in 1..Len(in_channels) |-> Conv2d(int(256 * width), 1, 1, 1, 0)]]

----------------------------------------------------------------------------
(* YoloBody.__init__                                                       *)

depth_dict == [nano |-> 33, tiny |-> 33, s |-> 33, m |-> 67, l |-> 100, x |-> 133]

width_dict == [nano |-> 250, tiny |-> 375, s |-> 500, m |-> 750, l |-> 1000, x |-> 1250]

\* Mutant: depthwise convolutions for tiny as well.
depthwise_of_Tiny(name) == name \in {"nano", "tiny"}

depthwise_of(name) == name = "nano"

\* Mutant: an unknown name falls back to profile l (dict.get with a default).
YoloBody_init_DefaultProfile(num_classes, name) ==
    LET nm == IF name \in DOMAIN width_dict THEN name ELSE "l" IN
    [backbone |-> SD_PFAN_init(depth_dict[nm], width_dict[nm], in_features_default,
                               in_channels_default, depthwise_of(nm)),
     head     |-> YOLOXHead_init(num_classes, width_dict[nm], in_channels_default,
                                 depthwise_of(nm))]

\* The module tree YoloBody.__init__ builds, or the KeyError of the dict lookup.
YoloBody_init(num_classes, name) ==
    IF name \notin DOMAIN depth_dict \/ name \notin DOMAIN width_dict
    THEN Error("KeyError")
    ELSE [backbone |-> SD_PFAN_init(depth_dict[name], width_dict[name],
                                    in_features_default, in_channels_default,
                                    depthwise_of(name)),
          head     |-> YOLOXHead_init(num_classes, width_dict[name],
                                      in_channels_default, depthwise_of(name))]

----------------------------------------------------------------------------
(* The backbone's forward: a mapping from level names to feature tensors.  *)

\* One stride-2 stage of the backbone (3x3 convolution, padding 1).
Halve(d) == (d + 2 - 3) \div 2 + 1

\* The mapping's entries by name, for a stride-8 grid of h x w0.
BackboneEntry(width, name, n, h, w0) ==
    CASE name = "dark2" ->
           [n |-> n, c |-> int(128 * width), h |-> 2 * h, w |-> 2 * w0,
            stride |-> 4, via |-> name]
      [] name = "dark3" ->
           [n |-> n, c |-> int(256 * width), h |-> h, w |-> w0,
            stride |-> 8, via |-> name]
      [] name = "dark4" ->
           [n |-> n, c |-> int(512 * width), h |-> Halve(h), w |-> Halve(w0),
            stride |-> 16, via |-> name]
      [] name = "dark5" ->
           [n |-> n, c |-> int(1024 * width), h |-> Halve(Halve(h)),
            w |-> Halve(Halve(w0)), stride |-> 32, via |-> name]

LevelNames == {"dark2", "dark3", "dark4", "dark5"}

Required == {"dark3", "dark4", "dark5"}

Perms(S) ==
    {f \in [1..Cardinality(S) -> S] : \A i, j \in 1..Cardinality(S) : i # j => f[i] # f[j]}

\* The iteration orders of a mapping that holds at least two required levels.
Orders ==
    UNION {Perms(S) : S \in {T \in SUBSET LevelNames : Cardinality(T \cap Required) >= 2}}

BackboneForward(bb, order, n, h, w0) ==
    [i \in 1..Len(order) |->
        [name |-> order[i], t |-> BackboneEntry(bb.width, order[i], n, h, w0)]]

Names(m) == {m[i].name : i \in 1..Len(m)}

\* Mutant: the levels taken by position in the mapping instead of by name.
Lookup_ByPosition(m, f) ==
    LET i == CHOOSE j \in 1..Len(in_features_default) : in_features_default[j] = f IN
    IF i <= Len(m) THEN m[i].t ELSE Error("KeyError")

\* out_features[f]
Lookup(m, f) ==
    IF f \in Names(m)
    THEN (CHOOSE e \in {m[i] : i \in 1..Len(m)} : e.name = f).t
    ELSE Error("KeyError")

----------------------------------------------------------------------------
(* State machine.                                                          *)

NoLocals ==
    [feat1 |-> NoTensor, feat2 |-> NoTensor, feat3 |-> NoTensor,
     feat3_upsample |-> NoTensor, Fmap_M_prs |-> NoTensor,
     Fmap_M_prs_upsample |-> NoTensor, Fmap_H_out |-> NoTensor,
     Fmap_M_prs_downsample |-> NoTensor, Fmap_H_out_downsample |-> NoTensor,
     Fmap_M_out |-> NoTensor, Fmap_L_out |-> NoTensor]

NoInput == [n |-> 0, h |-> 0, w |-> 0]

InitWith(e) ==
    /\ entry = e
    /\ pc = "start"
    /\ phi = ""
    /\ backbone = NoModule
    /\ head = NoModule
    /\ out_features = <<>>
    /\ loc = NoLocals
    /\ fpn_outs = <<>>
    /\ preds = <<>>
    /\ outputs = <<>>
    /\ ops = <<>>
    /\ input = NoInput
    /\ err = "none"
    /\ errAt = "none"

Init == InitWith("YoloBody")

ProfileNames == {"nano", "tiny", "s", "m", "l", "x", "huge"}

\* YoloBody(num_classes, phi)
YoloBody_new ==
    /\ entry = "YoloBody"
    /\ pc = "start"
    /\ \E name \in ProfileNames, num_classes \in 1..MaxClasses :
         LET m == YoloBody_init(num_classes, name) IN
         /\ phi' = name
         /\ IF IsErr(m)
            THEN /\ pc' = "raised" /\ err' = m.error /\ errAt' = "L244"
                 /\ UNCHANGED <<backbone, head>>
            ELSE /\ pc' = "constructed" /\ backbone' = m.backbone /\ head' = m.head
                 /\ UNCHANGED <<err, errAt>>
    /\ UNCHANGED <<entry, out_features, loc, fpn_outs, preds, outputs, ops, input>>

\* forward(x), up to line 181: out_features = self.backbone.forward(input)
Forward_L181 ==
    /\ pc = "constructed"
    /\ \E order \in Orders, n \in 1..MaxBatch, h \in 1..MaxDim, w0 \in 1..MaxDim :
         /\ input' = [n |-> n, h |-> h, w |-> w0]
         /\ out_features' = BackboneForward(backbone.backbone, order, n, h, w0)
    /\ pc' = "L182"
    /\ loc' = NoLocals
    /\ fpn_outs' = <<>>
    /\ preds' = <<>>
    /\ outputs' = <<>>
    /\ ops' = <<>>
    /\ err' = "none"
    /\ errAt' = "none"
    /\ UNCHANGED <<entry, phi, backbone, head>>

Raise(at, e) ==
    /\ pc' = "raised"
    /\ err' = e
    /\ errAt' = at

\* Mutant: a missing level is replaced by the mapping's first tensor.
FeatureLookup_SkipMissing(m, in_features) ==
    LET got == [i \in 1..Len(in_features) |->
                  IF in_features[i] \in Names(m) THEN Lookup(m, in_features[i])
                  ELSE m[1].t]
    IN  [feat1 |-> got[1], feat2 |-> got[2], feat3 |-> got[3]]

\* [feat1, feat2, feat3] = [out_features[f] for f in self.in_features]
FeatureLookup(m, in_features) ==
    LET got == [i \in 1..Len(in_features) |-> Lookup(m, in_features[i])]
        bad == {i \in 1..Len(in_features) : IsErr(got[i])}
    IN  IF bad # {} THEN Error("KeyError")
        ELSE [feat1 |-> got[1], feat2 |-> got[2], feat3 |-> got[3]]

Forward_L182 ==
    /\ pc = "L182"
    /\ LET got == FeatureLookup(out_features, backbone.in_features) IN
         IF IsErr(got)
         THEN Raise("L182", got.error) /\ loc' = loc
         ELSE /\ loc' = [loc EXCEPT !.feat1 = got.feat1, !.feat2 = got.feat2,
                                 !.feat3 = got.feat3]
              /\ pc' = "L185"
              /\ UNCHANGED <<err, errAt>>
    /\ UNCHANGED <<entry, phi, backbone, head, out_features, fpn_outs, preds,
                   outputs, ops, input>>

\* var = op(...): statement at `at`, falling through to `next`.
Assign(at, next, opname, var, res) ==
    /\ pc = at
    /\ ops' = Append(ops, opname)
    /\ IF IsErr(res)
       THEN Raise(at, res.error) /\ loc' = loc
       ELSE /\ loc' = [loc EXCEPT ![var] = res]
            /\ pc' = next
            /\ UNCHANGED <<err, errAt>>
    /\ UNCHANGED <<entry, phi, backbone, head, out_features, fpn_outs, preds,
                   outputs, input>>

Forward_L185 ==
    Assign("L185", "L186", "feat3_attention", "feat3",
           Gate(backbone.feat3_attention, "feat3", loc.feat3))

Forward_L186 ==
    Assign("L186", "L187", "feat2_attention", "feat2",
           Gate(backbone.feat2_attention, "feat2", loc.feat2))

Forward_L187 ==
    Assign("L187", "L194", "feat1_attention", "feat1",
           Gate(backbone.feat1_attention, "feat1", loc.feat1))

Forward_L194 ==
    Assign("L194", "L198", "upsample_L_to_M", "feat3_upsample",
           Apply(backbone.upsample_L_to_M, "feat3_upsample", loc.feat3))

Forward_L198 ==
    Assign("L198", "L202", "cat", "Fmap_M_prs",
           Cat(loc.feat2, loc.feat3_upsample, "Fmap_M_prs"))

Forward_L202 ==
    Assign("L202", "L206", "upsample_M_to_H", "Fmap_M_prs_upsample",
           Apply(backbone.upsample_M_to_H, "Fmap_M_prs_upsample", loc.Fmap_M_prs))

Forward_L206 ==
    Assign("L206", "L210", "cat", "Fmap_H_out",
           Cat(loc.feat1, loc.Fmap_M_prs_upsample, "Fmap_H_out"))

Forward_L210 ==
    Assign("L210", "L214", "downsample_M_to_L", "Fmap_M_prs_downsample",
           Apply(backbone.downsample_M_to_L, "Fmap_M_prs_downsample", loc.Fmap_M_prs))

Forward_L214 ==
    Assign("L214", "L218", "downsample_H_to_M", "Fmap_H_out_downsample",
           Apply(backbone.downsample_H_to_M, "Fmap_H_out_downsample", loc.Fmap_H_out))

Forward_L218 ==
    Assign("L218", "L223", "cat", "Fmap_M_out",
           Cat(loc.Fmap_H_out_downsample, loc.Fmap_M_prs, "Fmap_M_out"))

Forward_L223 ==
    Assign("L223", "L228", "cat", "Fmap_L_out",
           Cat(loc.feat3, loc.Fmap_M_prs_downsample, "Fmap_L_out"))

Forward_L228 ==
    Assign("L228", "L231", "resize_H", "Fmap_H_out",
           Apply(backbone.resize_H, "Fmap_H_out", loc.Fmap_H_out))

Forward_L231 ==
    Assign("L231", "L234", "resize_M", "Fmap_M_out",
           Apply(backbone.resize_M, "Fmap_M_out", loc.Fmap_M_out))

Forward_L234 ==
    Assign("L234", "L237", "resize_L", "Fmap_L_out",
           Apply(backbone.resize_L, "Fmap_L_out", loc.Fmap_L_out))

\* return (Fmap_H_out, Fmap_M_out, Fmap_L_out); YoloBody.forward hands it to the head.
FusionResult(l) == <<l.Fmap_H_out, l.Fmap_M_out, l.Fmap_L_out>>

Forward_L237 ==
    /\ pc = "L237"
    /\ fpn_outs' = FusionResult(loc)
    /\ pc' = IF entry = "YoloBody" THEN "L56" ELSE "returned"
    /\ UNCHANGED <<entry, phi, backbone, head, out_features, loc, preds, outputs,
                   ops, input, err, errAt>>

----------------------------------------------------------------------------
(* YOLOXHead.forward                                                       *)

\* nn.Sequential of the branch's convolutions.
Sequential(convs, name, t) == Apply(convs[2], name, Apply(convs[1], name, t))

\* A 1x1 prediction convolution: every output channel is labelled with the
\* convolution, its index in the output, the feature it read and the scale.
Predict(op, name, k, t) ==
    LET r == Apply(op, name, t) IN
    IF IsErr(r) THEN r
    ELSE [n |-> r.n, c |-> r.c, h |-> r.h, w |-> r.w, stride |-> r.stride,
          via |-> name,
          chans |-> [i \in 1..r.c |->
                       [pred |-> name, idx |-> i, feat |-> t.via, branch |-> k]]]

\* Mutant: the concatenation in the order [reg_output, cls_output, obj_output].
HeadCat_ObjLast(reg_output, obj_output, cls_output) ==
    IF IsErr(reg_output) THEN reg_output
    ELSE IF IsErr(obj_output) THEN obj_output
    ELSE IF IsErr(cls_output) THEN cls_output
    ELSE [n |-> reg_output.n,
          c |-> reg_output.c + obj_output.c + cls_output.c,
          h |-> reg_output.h, w |-> reg_output.w, stride |-> reg_output.stride,
          via |-> "output",
          chans |-> reg_output.chans \o cls_output.chans \o obj_output.chans]

\* output = torch.cat([reg_output, obj_output, cls_output], 1)
HeadCat(reg_output, obj_output, cls_output) ==
    IF IsErr(reg_output) THEN reg_output
    ELSE IF IsErr(obj_output) THEN obj_output
    ELSE IF IsErr(cls_output) THEN cls_output
    ELSE IF \/ {reg_output.n, obj_output.n, cls_output.n} # {reg_output.n}
            \/ {reg_output.h, obj_output.h, cls_output.h} # {reg_output.h}
            \/ {reg_output.w, obj_output.w, cls_output.w} # {reg_output.w}
    THEN Error("RuntimeError:sizes")
    ELSE [n |-> reg_output.n,
          c |-> reg_output.c + obj_output.c + cls_output.c,
          h |-> reg_output.h, w |-> reg_output.w, stride |-> reg_output.stride,
          via |-> "output",
          chans |-> reg_output.chans \o obj_output.chans \o cls_output.chans]

\* The feature each prediction convolution reads.
ObjFeat(cls_feat, reg_feat) == reg_feat

\* One iteration of the loop over enumerate(inputs); k counts from 1.
HeadIteration(hd, k, t) ==
    LET x0         == Apply(hd.stems[k], "x", t)
        cls_feat   == Sequential(hd.cls_convs[k], "cls_feat", x0)
        cls_output == Predict(hd.cls_preds[k], "cls_preds", k, cls_feat)
        reg_feat   == Sequential(hd.reg_convs[k], "reg_feat", x0)
        reg_output == Predict(hd.reg_preds[k], "reg_preds", k, reg_feat)
        obj_output == Predict(hd.obj_preds[k], "obj_preds", k,
                              ObjFeat(cls_feat, reg_feat))
        output     == HeadCat(reg_output, obj_output, cls_output)
    IN  IF IsErr(output) THEN output
        ELSE [reg_output |-> reg_output, obj_output |-> obj_output,
              cls_output |-> cls_output, output |-> output]

HeadOps == <<"stems", "cls_convs", "cls_preds", "reg_convs", "reg_preds", "obj_preds", "cat">>

Head_L56 ==
    /\ pc = "L56"
    /\ Len(outputs) < Len(fpn_outs)
    /\ LET k == Len(outputs) + 1
           r == HeadIteration(head, k, fpn_outs[k])
       IN  /\ ops' = ops \o HeadOps
           /\ IF IsErr(r)
              THEN Raise("L56", r.error) /\ UNCHANGED <<preds, outputs>>
              ELSE /\ preds' = Append(preds, r)
                   /\ outputs' = Append(outputs, r.output)
                   /\ UNCHANGED <<pc, err, errAt>>
    /\ UNCHANGED <<entry, phi, backbone, head, out_features, loc, fpn_outs, input>>

\* return outputs
Head_L94 ==
    /\ pc = "L56"
    /\ Len(outputs) = Len(fpn_outs)
    /\ pc' = "returned"
    /\ UNCHANGED <<entry, phi, backbone, head, out_features, loc, fpn_outs, preds,
                   outputs, ops, input, err, errAt>>

Fusion ==
    \/ Forward_L181 \/ Forward_L182 \/ Forward_L185 \/ Forward_L186 \/ Forward_L187
    \/ Forward_L194 \/ Forward_L198 \/ Forward_L202 \/ Forward_L206 \/ Forward_L210
    \/ Forward_L214 \/ Forward_L218 \/ Forward_L223 \/ Forward_L228 \/ Forward_L231
    \/ Forward_L234 \/ Forward_L237

Next == YoloBody_new \/ Fusion \/ Head_L56 \/ Head_L94

Spec == Init /\ [][Next]_vars

----------------------------------------------------------------------------
(* The fusion network constructed on its own, with the caller's channel    *)
(* configuration.                                                          *)

CustomWidths == {300, 500, 1000, 1250}

CustomChannels == {<<256, 512, 1024>>, <<128, 512, 1024>>, <<256, 256, 1024>>,
                   <<256, 512, 512>>}

\* Every concatenation of SD_PFAN.forward yields the channel count declared by
\* the operators that consume it, given the backbone's channel counts.
ConcatAligned(f) ==
    LET high == int(256 * f.width)
        mid  == int(512 * f.width)
        low  == int(1024 * f.width)
        mid_process  == mid + f.upsample_L_to_M.cout
        high_out_raw == high + f.upsample_M_to_H.cout
        mid_out_raw  == f.downsample_H_to_M.cout + mid_process
        low_out_raw  == low + f.downsample_M_to_L.cout
    IN  /\ mid_process = f.upsample_M_to_H.cin
        /\ mid_process = f.downsample_M_to_L.cin
        /\ high_out_raw = f.downsample_H_to_M.cin
        /\ high_out_raw = f.resize_H.cin
        /\ mid_out_raw = f.resize_M.cin
        /\ low_out_raw = f.resize_L.cin

\* Mutant: the constructor asserts the concatenations' channel counts.
SD_PFAN_check_Asserting(in_channels, width) ==
    IF ConcatAligned(SD_PFAN_init(100, width, in_features_default, in_channels, FALSE))
    THEN "none" ELSE "WRONG_CHANNEL_CONFIG"

\* The checks SD_PFAN.__init__ makes on its channel configuration: none.
SD_PFAN_check(in_channels, width) == "none"

\* SD_PFAN(depth, width, in_channels = ..., depthwise = ...)
SD_PFAN_new ==
    /\ entry = "SD_PFAN"
    /\ pc = "start"
    /\ \E width \in CustomWidths, in_channels \in CustomChannels :
         LET e == SD_PFAN_check(in_channels, width) IN
         IF e # "none"
         THEN Raise("L97", e) /\ UNCHANGED backbone
         ELSE /\ backbone' = SD_PFAN_init(100, width, in_features_default,
                                          in_channels, FALSE)
              /\ pc' = "constructed"
              /\ UNCHANGED <<err, errAt>>
    /\ UNCHANGED <<entry, phi, head, out_features, loc, fpn_outs, preds, outputs,
                   ops, input>>

InitFusion == InitWith("SD_PFAN")

NextFusion == SD_PFAN_new \/ Fusion

SpecFusion == InitFusion /\ [][NextFusion]_vars

----------------------------------------------------------------------------
(* Properties.                                                             *)

InForward == input # NoInput

Complete == Required \subseteq Names(out_features)

Pow2(k) == IF k = 1 THEN 1 ELSE IF k = 2 THEN 2 ELSE 4

\* The three predictions have 4 + 1 + num_classes channels and the grids
\* (h, w0), (h/2, w0/2), (h/4, w0/4) of the call's stride-8 grid (h, w0).
PredictionShapes ==
    /\ Len(outputs) = 3
    /\ \A k \in 1..3 :
         /\ outputs[k].n = input.n
         /\ outputs[k].c = 4 + 1 + head.num_classes
         /\ outputs[k].h * Pow2(k) = input.h
         /\ outputs[k].w * Pow2(k) = input.w

\* C1 as stated: for every profile, batch size and EVEN stride-8 grid (h, w0),
\* the forward call returns three predictions of 4 + 1 + num_classes channels
\* on the grids (h, w0), (h/2, w0/2), (h/4, w0/4).
C1_ShapeLaw_Even ==
    (InForward /\ Complete /\ input.h % 2 = 0 /\ input.w % 2 = 0)
        => /\ pc # "raised"
           /\ pc = "returned" => PredictionShapes

\* C1 amended: the same for every stride-8 grid whose h and w0 are multiples
\* of 4 (so that the stride-16 grid is even as well).
C1_ShapeLaw_MultipleOf4 ==
    (InForward /\ Complete /\ input.h % 4 = 0 /\ input.w % 4 = 0)
        => /\ pc # "raised"
           /\ pc = "returned" => PredictionShapes

C1_Witness ==
    /\ pc = "returned" /\ input.h = 8 /\ input.w = 4 /\ phi = "x"
    /\ outputs[3].h = 2 /\ outputs[3].w = 1

\* C2: when SD_PFAN.forward returns, it returns exactly three tensors whose
\* channel counts are 256*w, 512*w, 1024*w and whose spatial sizes are those
\* of the backbone tensors dark3, dark4, dark5 it was given.
C2_FusionContract ==
    fpn_outs # <<>> =>
        /\ Len(fpn_outs) = 3
        /\ fpn_outs[1].c = (256 * width_dict[phi]) \div 1000
        /\ fpn_outs[2].c = (512 * width_dict[phi]) \div 1000
        /\ fpn_outs[3].c = (1024 * width_dict[phi]) \div 1000
        /\ \A i \in 1..3 :
             LET b == Lookup(out_features, in_features_default[i]) IN
             /\ fpn_outs[i].n = b.n
             /\ fpn_outs[i].h = b.h
             /\ fpn_outs[i].w = b.w

C2_Witness ==
    /\ fpn_outs # <<>> /\ phi = "tiny" /\ input.h = 4 /\ input.w = 8
    /\ fpn_outs[2].c = 192 /\ fpn_outs[2].h = 2 /\ fpn_outs[2].w = 4

\* C3: whatever the iteration order of the backbone's mapping, and whether or
\* not it holds extra entries, the call does not fail on the order (no
\* KeyError, no channel mismatch), and the returned list is (High, Mid, Low):
\* element k comes from the stride-8, -16, -32 level through head branch k.
C3_OrderPreservation ==
    /\ (InForward /\ Complete) => err \notin {"KeyError", "RuntimeError:channels"}
    /\ fpn_outs # <<>> => \A k \in 1..3 : fpn_outs[k].stride = 8 * Pow2(k)
    /\ pc = "returned" =>
         \A k \in 1..3 :
           /\ outputs[k].stride = 8 * Pow2(k)
           /\ \A i \in 1..Len(outputs[k].chans) : outputs[k].chans[i].branch = k

C3_Witness ==
    /\ pc = "returned" /\ Len(out_features) = 4
    /\ out_features[1].name = "dark5" /\ out_features[4].name = "dark3"
    /\ outputs[1].stride = 8

\* C4: when the mapping lacks one of the three required names, the call ends
\* in the lookup's error at line 182 with no fusion or head operator invoked
\* and nothing returned.
C4_MissingFeatureLevel ==
    (InForward /\ ~Complete /\ pc # "L182")
        => /\ pc = "raised"
           /\ err = "KeyError"
           /\ errAt = "L182"
           /\ ops = <<>>
           /\ loc = NoLocals
           /\ fpn_outs = <<>>
           /\ outputs = <<>>

C4_Witness ==
    /\ pc = "raised" /\ err = "KeyError" /\ errAt = "L182"
    /\ Names(out_features) = {"dark3", "dark5"}

\* C5: a profile name outside nano, tiny, s, m, l, x fails in the constructor's
\* table lookup, before the fusion network (with its backbone) or the head is
\* instantiated.
C5_UnknownProfile ==
    (pc # "start" /\ phi \notin {"nano", "tiny", "s", "m", "l", "x"})
        => /\ pc = "raised"
           /\ err = "KeyError"
           /\ errAt = "L244"
           /\ backbone = NoModule
           /\ head = NoModule
           /\ ops = <<>>

C5_Witness == pc = "raised" /\ phi = "huge" /\ errAt = "L244"

\* C6: each prediction is the concatenation [reg_output, obj_output,
\* cls_output]: channels 1..4 are the regression output, channel 5 the
\* objectness output, channels 6..5+num_classes the classification output;
\* regression and objectness read reg_feat, classification reads cls_feat.
C6_ChannelDecomposition ==
    \A k \in 1..Len(outputs) :
      LET o == outputs[k]
          p == preds[k]
          nc == head.num_classes
      IN  /\ o.c = 4 + 1 + nc
          /\ Len(o.chans) = o.c
          /\ SubSeq(o.chans, 1, 4) = p.reg_output.chans
          /\ SubSeq(o.chans, 5, 5) = p.obj_output.chans
          /\ SubSeq(o.chans, 6, 5 + nc) = p.cls_output.chans
          /\ \A i \in 1..4 :
               o.chans[i] = [pred |-> "reg_preds", idx |-> i, feat |-> "reg_feat",
                             branch |-> k]
          /\ o.chans[5] = [pred |-> "obj_preds", idx |-> 1, feat |-> "reg_feat",
                           branch |-> k]
          /\ \A i \in 1..nc :
               o.chans[5 + i] = [pred |-> "cls_preds", idx |-> i, feat |-> "cls_feat",
                                 branch |-> k]

C6_Witness ==
    /\ Len(outputs) = 3 /\ head.num_classes = 2 /\ outputs[3].c = 7
    /\ outputs[3].chans[7].pred = "cls_preds"

ClaimedDepth(name) ==
    CASE name = "nano" -> 33 [] name = "tiny" -> 33 [] name = "s" -> 33
      [] name = "m" -> 67 [] name = "l" -> 100 [] name = "x" -> 133

ClaimedWidth(name) ==
    CASE name = "nano" -> 250 [] name = "tiny" -> 375 [] name = "s" -> 500
      [] name = "m" -> 750 [] name = "l" -> 1000 [] name = "x" -> 1250

\* C7: for each profile name the constructor selects depth 0.33, 0.33, 0.33,
\* 0.67, 1.00, 1.33 and width 0.25, 0.375, 0.50, 0.75, 1.00, 1.25, sets
\* depthwise exactly for nano, and gives the same width and depthwise flag to
\* the fusion network (and its backbone) and to the head.
C7_ProfileSelection ==
    (entry = "YoloBody" /\ pc # "start" /\ phi \in {"nano", "tiny", "s", "m", "l", "x"})
        => /\ backbone # NoModule /\ head # NoModule
           /\ backbone.backbone.depth = ClaimedDepth(phi)
           /\ backbone.backbone.width = ClaimedWidth(phi)
           /\ backbone.width = ClaimedWidth(phi)
           /\ head.width = ClaimedWidth(phi)
           /\ backbone.backbone.depthwise = (phi = "nano")
           /\ head.depthwise = (phi = "nano")
           /\ \A k \in 1..3 : \A j \in 1..2 :
                /\ head.cls_convs[k][j].kind = IF phi = "nano" THEN "DWConv" ELSE "BaseConv"
                /\ head.reg_convs[k][j].kind = IF phi = "nano" THEN "DWConv" ELSE "BaseConv"

C7_Witness ==
    /\ pc = "constructed" /\ phi = "nano" /\ head.depthwise
    /\ backbone.width = 250 /\ backbone.backbone.depth = 33

\* C8: for each profile width, with truncating int(c * width), every
\* concatenation's operand counts sum to the declared input of the operators
\* that consume it (mid_process = 2 x Mid, high_out_raw = 2 x High,
\* mid_out_raw = 4 x Mid, low_out_raw = 2 x Low), head stem k declares the
\* channel count of fused output k, and no operator is ever handed a tensor
\* of another channel count than it declares.
C8_ChannelAlignment ==
    /\ backbone # NoModule =>
         LET f == backbone
             w == f.width
         IN  /\ f.feat2_attention.cout + f.upsample_L_to_M.cout = int(2 * 512 * w)
             /\ f.upsample_M_to_H.cin = int(2 * 512 * w)
             /\ f.downsample_M_to_L.cin = int(2 * 512 * w)
             /\ f.feat1_attention.cout + f.upsample_M_to_H.cout = int(2 * 256 * w)
             /\ f.downsample_H_to_M.cin = int(2 * 256 * w)
             /\ f.resize_H.cin = int(2 * 256 * w)
             /\ f.downsample_H_to_M.cout + int(2 * 512 * w) = int(4 * 512 * w)
             /\ f.resize_M.cin = int(4 * 512 * w)
             /\ f.feat3_attention.cout + f.downsample_M_to_L.cout = int(2 * 1024 * w)
             /\ f.resize_L.cin = int(2 * 1024 * w)
             /\ f.upsample_L_to_M.cin = f.feat3_attention.cout
             /\ head.stems[1].cin = f.resize_H.cout
             /\ head.stems[2].cin = f.resize_M.cout
             /\ head.stems[3].cin = f.resize_L.cout
    /\ err # "RuntimeError:channels"
    /\ loc.Fmap_M_prs # NoTensor => loc.Fmap_M_prs.c = backbone.upsample_M_to_H.cin
    /\ loc.Fmap_L_out # NoTensor =>
         loc.Fmap_L_out.c \in {backbone.resize_L.cin, backbone.resize_L.cout}

C8_Witness ==
    /\ pc = "returned" /\ phi = "tiny"
    /\ backbone.resize_M.cin = 768 /\ loc.Fmap_M_prs.c = 384

\* C9 as stated: the operator that upsamples mid_process is declared with
\* input 2 x Mid and output High / 2 channels (scaled by width).
C9_UpsampleMtoH_HalfHigh ==
    backbone # NoModule =>
        /\ backbone.upsample_M_to_H.cin = int(2 * 512 * backbone.width)
        /\ backbone.upsample_M_to_H.cout = int((256 \div 2) * backbone.width)

\* C9 amended: it is declared with input 2 x Mid and output Mid / 2 channels,
\* which is High (scaled by width), and the tensor it produces has that many
\* channels on High's grid.
C9_UpsampleMtoH_High ==
    /\ backbone # NoModule =>
         /\ backbone.upsample_M_to_H.cin = int(2 * 512 * backbone.width)
         /\ backbone.upsample_M_to_H.cout = int((512 \div 2) * backbone.width)
         /\ backbone.upsample_M_to_H.cout = int(256 * backbone.width)
         /\ backbone.upsample_M_to_H.s = 2
    /\ loc.Fmap_M_prs_upsample # NoTensor =>
         /\ loc.Fmap_M_prs_upsample.c = int(256 * backbone.width)
         /\ loc.Fmap_M_prs_upsample.h = 2 * loc.Fmap_M_prs.h
         /\ loc.Fmap_M_prs_upsample.w = 2 * loc.Fmap_M_prs.w
    /\ loc.Fmap_H_out # NoTensor =>
         /\ loc.Fmap_M_prs_upsample.h = loc.feat1.h
         /\ loc.Fmap_M_prs_upsample.w = loc.feat1.w

C9_Witness ==
    /\ loc.Fmap_H_out # NoTensor /\ phi = "m"
    /\ loc.Fmap_M_prs.c = 768 /\ loc.Fmap_M_prs_upsample.c = 192

ForwardLines ==
    {"L182", "L185", "L186", "L187", "L194", "L198", "L202", "L206", "L210",
     "L214", "L218", "L223", "L228", "L231", "L234"}

\* C10 as stated: a configuration whose concatenations do not align fails in
\* the constructor, so every constructed network is aligned and no channel
\* mismatch is raised during a forward call.
C10_DetectedAtConstruction ==
    /\ backbone # NoModule => ConcatAligned(backbone)
    /\ err = "RuntimeError:channels" => errAt \notin ForwardLines

\* C10 amended: the constructor checks nothing and succeeds for every channel
\* configuration; a misaligned configuration surfaces only during a forward
\* call, as the channel mismatch of an operator, and such a call returns
\* nothing.
C10_DetectedInForward ==
    /\ pc # "start" => backbone # NoModule
    /\ errAt # "L97"
    /\ err = "RuntimeError:channels" => errAt \in ForwardLines
    /\ (backbone # NoModule /\ ~ConcatAligned(backbone)) =>
         /\ pc \notin {"L237", "returned"}
         /\ fpn_outs = <<>>
         /\ (pc = "raised" /\ Complete /\ input.h % 4 = 0 /\ input.w % 4 = 0)
               => err = "RuntimeError:channels"

C10_Witness ==
    /\ backbone # NoModule /\ ~ConcatAligned(backbone)
    /\ backbone.in_channels = <<256, 512, 1024>> /\ backbone.width = 300
    /\ pc = "raised" /\ err = "RuntimeError:channels" /\ errAt = "L202"

====
